---- MODULE Spec2Model ----
(***************************************************************************)
(* A model of the terminal snake game of src/main.rs: the game logic       *)
(* (SnakeGameLogic), the event channel (std::sync::mpsc) and the three     *)
(* threads of SnakeGameControler::run (ticker, key reader, consumer loop). *)
(***************************************************************************)
EXTENDS Integers, Sequences, FiniteSets, TLC

(***************************************************************************)
(* Bounds of the exploration.                                              *)
(***************************************************************************)
\* Render events the ticker may enqueue after the start state.
MaxTicks == 3
\* Keys the key reader may read after the start state.
MaxKeys == 2
\* Events that may wait in the (unbounded) channel at one time.
MaxQueue == 2
\* Components of the arguments of a Coord::rand call taken by itself: 0..MaxSize.
MaxSize == 2

(***************************************************************************)
(* Program constants.                                                      *)
(***************************************************************************)
\* u16 arithmetic: values are taken modulo 2^16.
U16 == 65536
\* SnakeGameLogic::new(Size(20, 20))
FieldW == 20
FieldH == 20
field_size == <<FieldW, FieldH>>

Up == "Up"
Down == "Down"
Left == "Left"
Right == "Right"
Direction == {Up, Down, Left, Right}

\* Values of rng.gen::<u16>() the exploration draws from: both ends of the
\* range, values that land on the cells around the first food, and values
\* above the modulus.
RngValues == {0, 6, 7, 8, 9, 17, 18, 65535}

(***************************************************************************)
(* Geometry primitives.                                                    *)
(***************************************************************************)
opposite(d) ==
  CASE d = Up -> Down
    [] d = Down -> Up
    [] d = Left -> Right
    [] d = Right -> Left

\* Coord::adjascent. The u16 arithmetic is taken with wrap-around, as a
\* release build computes it (a debug build panics on the overflow instead).
adjascent(c, d) ==
  CASE d = Up -> <<c[1], (c[2] - 1) % U16>>
    [] d = Down -> <<c[1], (c[2] + 1) % U16>>
    [] d = Left -> <<(c[1] - 1) % U16, c[2]>>
    [] d = Right -> <<(c[1] + 1) % U16, c[2]>>

\* The derived PartialOrd of Size: lexicographic min <= max.
SizeLe(a, b) == a[1] < b[1] \/ (a[1] = b[1] /\ a[2] <= b[2])

\* The coordinate Coord::rand(min, max) builds from the two draws r0, r1.
CoordRand(min, max, r0, r1) ==
  << (min[1] + (r0 % ((1 + max[1] - min[1]) % U16))) % U16,
     (min[2] + (r1 % ((1 + max[2] - min[2]) % U16))) % U16 >>

(***************************************************************************)
(* Game logic: pure parts.                                                 *)
(***************************************************************************)
\* (1..w - 1).contains(&c.0) && (1..h - 1).contains(&c.1), end exclusive.
is_inner_field_lo(c) ==
  /\ 0 <= c[1] /\ c[1] < field_size[1] - 1
  /\ 0 <= c[2] /\ c[2] < field_size[2] - 1

is_inner_field(c) ==
  /\ 1 <= c[1] /\ c[1] < field_size[1] - 1
  /\ 1 <= c[2] /\ c[2] < field_size[2] - 1

set_dir_always(cur, d) == d

\* The direction after set_dir(d) when the direction is cur.
set_dir(cur, d) == IF opposite(cur) # d THEN d ELSE cur

\* self.body.len() - 3, in unbounded integers: a negative value stands for
\* the underflow of the usize subtraction.
score(b) == Len(b) - 3

push_front(b, c) == <<c>> \o b
pop_back(b) == SubSeq(b, 1, Len(b) - 1)

\* for p in &self.body { if p == &c { continue 'outer } }
InBody_skip_head(b, c) == \E i \in 2..Len(b) : b[i] = c

InBody(b, c) == \E i \in 1..Len(b) : b[i] = c

\* for p in self.body.iter().skip(1) { if p == &adj { return false } }
\* where adj is the head of b.
CollidesWithBody(b) == \E i \in 2..Len(b) : b[i] = b[1]

\* max = Size(w - 2, h - 2) of the food relocation.
FeedMax == <<(field_size[1] - 2) % U16, (field_size[2] - 2) % U16>>
FeedMin == <<1, 1>>

(***************************************************************************)
(* Events and keys.                                                        *)
(***************************************************************************)
ChangeDir(d) == <<"ChangeDir", d>>
Render == <<"Render">>
Quit == <<"Quit">>
NoMsg == <<"None">>

\* "x" stands for every key without a meaning.
Keys == {"h", "j", "k", "l", "q", "x"}

KeyToMsg(k) ==
  CASE k = "h" -> ChangeDir(Left)
    [] k = "j" -> ChangeDir(Down)
    [] k = "k" -> ChangeDir(Up)
    [] k = "l" -> ChangeDir(Right)
    [] k = "q" -> Quit
    [] OTHER -> NoMsg

(***************************************************************************)
(* Start states: the state SnakeGameControler::new builds, and states a    *)
(* play from it reaches, computed by replaying a recorded play with the    *)
(* operators above. A start state holds the game logic and what the        *)
(* consumer has seen: the last return value of r#move, the directions      *)
(* requested since the last Render and the direction at that Render.       *)
(***************************************************************************)
NewLogic_tail_first ==
  [body |-> << <<2, 2>>, <<3, 2>>, <<4, 2>> >>, pos_feed |-> <<10, 10>>, dir |-> Right,
   ret |-> "none", sinceTick |-> <<>>, dirAtTick |-> Right, eaten |-> 0]

NewLogic ==
  [body |-> << <<4, 2>>, <<3, 2>>, <<2, 2>> >>, pos_feed |-> <<10, 10>>, dir |-> Right,
   ret |-> "none", sinceTick |-> <<>>, dirAtTick |-> Right, eaten |-> 0]

\* In a recorded play, a Render on which the snake eats is recorded with
\* the draws r0, r1 of the candidate the relocation loop accepted.
RenderDraw(r0, r1) == <<"Render", r0, r1>>

\* One event of a recorded play in which the snake does not die: set_dir
\* for a ChangeDir, r#move returning true for a Render.
ReplayEvent(st, e) ==
  IF e[1] = "ChangeDir"
  THEN [st EXCEPT !.dir = set_dir(st.dir, e[2]),
                  !.sinceTick = Append(st.sinceTick, e[2])]
  ELSE LET adj == adjascent(Head(st.body), st.dir)
           gb == push_front(st.body, adj)
           nb == pop_back(gb)
       IN IF ~is_inner_field(adj)
          THEN st
          ELSE IF adj = st.pos_feed
          THEN IF /\ Len(e) = 3
                  /\ SizeLe(FeedMin, FeedMax)
                  /\ ~InBody(gb, CoordRand(FeedMin, FeedMax, e[2], e[3]))
                  /\ ~CollidesWithBody(gb)
               THEN [st EXCEPT !.body = gb,
                               !.pos_feed = CoordRand(FeedMin, FeedMax, e[2], e[3]),
                               !.ret = "true", !.sinceTick = <<>>,
                               !.dirAtTick = st.dir, !.eaten = st.eaten + 1]
               ELSE st
          ELSE IF ~CollidesWithBody(nb)
          THEN [st EXCEPT !.body = nb, !.ret = "true",
                          !.sinceTick = <<>>, !.dirAtTick = st.dir]
          ELSE st

\* The events es[lo..hi] of a play, one after the other (halved, so that a
\* long play nests only as deep as the logarithm of its length; the test on
\* half.body makes TLC evaluate the first half before the second, a body
\* is never empty).
RECURSIVE ReplayRange(_, _, _, _)
ReplayRange(st, es, lo, hi) ==
  IF lo > hi THEN st
  ELSE IF lo = hi THEN ReplayEvent(st, es[lo])
  ELSE LET mid == (lo + hi) \div 2
           half == ReplayRange(st, es, lo, mid)
       IN IF half.body = <<>> THEN half ELSE ReplayRange(half, es, mid + 1, hi)

Replay(st, es) == ReplayRange(st, es, 1, Len(es))

Renders(n) == [i \in 1..n |-> Render]

\* Down the column x = 4 to the row of the food, then right up to the cell
\* before the food.
PlayToFood ==
  <<ChangeDir(Down)>> \o Renders(8) \o <<ChangeDir(Right)>> \o Renders(5)

\* One cell up, next to the top wall, then a turn to the left.
PlayToWall == <<ChangeDir(Up), Render, ChangeDir(Left)>>

\* To the food, onto it (the new food goes to the corner (1,1)), then up
\* and left: the four cells of the snake fill a square, the head beside
\* the tail.
PlayToLoop ==
  PlayToFood \o <<RenderDraw(0, 0), ChangeDir(Up), Render, ChangeDir(Left), Render>>

\* The cells of row y from column x1 to column x2, of column x from row
\* y1 to row y2.
RowCells(y, x1, x2) ==
  [i \in 1..((IF x1 <= x2 THEN x2 - x1 ELSE x1 - x2) + 1) |->
     <<IF x1 <= x2 THEN x1 + i - 1 ELSE x1 - i + 1, y>>]

ColCells(x, y1, y2) ==
  [i \in 1..((IF y1 <= y2 THEN y2 - y1 ELSE y1 - y2) + 1) |->
     <<x, IF y1 <= y2 THEN y1 + i - 1 ELSE y1 - i + 1>>]

\* Row y without its first column, odd rows from right to left, even rows
\* from left to right; the rows from y1 down to y2 one after the other.
SerpRow(y) ==
  IF y % 2 = 1 THEN RowCells(y, FieldW - 2, 2) ELSE RowCells(y, 2, FieldW - 2)

RECURSIVE SerpRows(_, _)
SerpRows(y1, y2) ==
  IF y1 < y2 THEN <<>> ELSE SerpRow(y1) \o SerpRows(y1 - 1, y2)

\* A walk of the head over the interior that starts where PlayToFood ends,
\* (9,10), and visits every cell the snake does not cover there: row 10 to
\* the right wall, the rows above in a serpentine, the first column down,
\* the rows below in a serpentine, row 10 from the left up to (6,10).
FullPath ==
  RowCells(10, 9, FieldW - 2) \o SerpRows(9, 1) \o ColCells(1, 1, FieldH - 2)
    \o SerpRows(FieldH - 2, 11) \o RowCells(10, 2, 6)

\* The key that turns the head from cell a to the neighbouring cell b.
DirOf(a, b) ==
  IF b[1] = a[1] + 1 THEN Right
  ELSE IF a[1] = b[1] + 1 THEN Left
  ELSE IF b[2] = a[2] + 1 THEN Down
  ELSE Up

\* The snake eats on every tick of the walk: the key towards the next cell
\* of the walk, then the tick, whose accepted draw puts the new food on
\* the cell after it (Coord::rand maps the draws x - 1, y - 1 to (x, y)).
EatAlong(path) ==
  [k \in 1..(2 * (Len(path) - 2)) |->
     LET i == (k + 1) \div 2 IN
       IF k % 2 = 1
       THEN ChangeDir(DirOf(path[i], path[i + 1]))
       ELSE RenderDraw(path[i + 2][1] - 1, path[i + 2][2] - 1)]

\* The play that fills the board: 323 of the 324 interior cells are body,
\* the food is on the last one, (6,10), straight ahead of the head.
PlayToFull == PlayToFood \o EatAlong(FullPath)

StartLogics ==
  {Replay(NewLogic, <<>>), Replay(NewLogic, PlayToFood), Replay(NewLogic, PlayToWall),
   Replay(NewLogic, PlayToLoop), Replay(NewLogic, PlayToFull)}

(***************************************************************************)
(* State.                                                                  *)
(***************************************************************************)
VARIABLES
  body,       \* SnakeGameLogic.body, head first
  pos_feed,   \* SnakeGameLogic.pos_feed
  dir,        \* SnakeGameLogic.dir
  queue,      \* the channel: events in flight, each with its enqueue number
  rxAlive,    \* event_rx exists (it is dropped when run returns)
  ctl,        \* the consumer: "Running" (in recv), "Sampling" (in the food
              \* relocation loop of a Render), "GameOver" (after the break),
              \* "Returned" (run returned), "Panicked" (an unwrap of a
              \* terminal write failed), "Aborted" (the panic has unwound
              \* run), "Terminated" (process exited)
  ret,        \* the value the last r#move call returned: "none", "true", "false"
  ticker,     \* the ticker thread: "loop", "exited", "killed"
  input,      \* the key reader thread: "loop", "exited", "panicked", "killed"
  nticks,     \* Render events enqueued since the start state
  nkeys,      \* keys read since the start state
  nsent,      \* send calls made since the start state; while the receiver
              \* lives, the enqueue number of the newest event
  lastId,     \* enqueue number of the event consumed last
  sinceTick,  \* directions of the ChangeDir events consumed since the last Render
  dirAtTick,  \* the direction when the last Render was consumed
  eaten,      \* ticks so far on which the head landed on the food
  rawMode,    \* the terminal is in raw mode (the RawTerminal guard of run lives)
  cursorHidden, \* the cursor is hidden (cursor::Hide written, cursor::Show not yet)
  rand        \* a call of Coord::rand taken by itself: its arguments min and
              \* max, how far it has got (pc), and the coordinate it returns

logic == <<body, pos_feed, dir>>
term == <<rawMode, cursorHidden>>
game == <<body, pos_feed, dir, queue, rxAlive, ctl, ret, ticker, input,
          nticks, nkeys, nsent, lastId, sinceTick, dirAtTick, eaten,
          rawMode, cursorHidden>>
vars == <<body, pos_feed, dir, queue, rxAlive, ctl, ret, ticker, input,
          nticks, nkeys, nsent, lastId, sinceTick, dirAtTick, eaten,
          rawMode, cursorHidden, rand>>

\* No call of Coord::rand is looked at by itself.
RandIdle == [min |-> <<0, 0>>, max |-> <<0, 0>>, pc |-> "idle", out |-> <<>>]

\* run up to its consumer loop, on the game state st.
InitGame(st) ==
  /\ body = st.body
  /\ pos_feed = st.pos_feed
  /\ dir = st.dir
  /\ ret = st.ret
  /\ sinceTick = st.sinceTick
  /\ dirAtTick = st.dirAtTick
  /\ eaten = st.eaten
  /\ rawMode = TRUE
  /\ cursorHidden = TRUE
  /\ queue = <<>>
  /\ rxAlive = TRUE
  /\ ctl = "Running"
  /\ ticker = "loop"
  /\ input = "loop"
  /\ nticks = 0
  /\ nkeys = 0
  /\ nsent = 0
  /\ lastId = 0

Init ==
  /\ \E st \in StartLogics : InitGame(st)
  /\ rand = RandIdle

(***************************************************************************)
(* The channel.                                                            *)
(***************************************************************************)
\* tx.send(e): the event joins the back of the queue.
send(q, e, id) == Append(q, [ev |-> e, id |-> id])

\* event_rx.recv(): the event at the front of the queue, and the rest.
recv_back(q) == [msg |-> q[Len(q)], rest |-> SubSeq(q, 1, Len(q) - 1)]

recv(q) == [msg |-> Head(q), rest |-> Tail(q)]

(***************************************************************************)
(* Producers.                                                              *)
(***************************************************************************)
\* thread::sleep(150ms); if tx.send(Render).is_err() { break }
\* A send into a channel whose receiver is gone fails.
TickerSend_unwrap ==
  /\ ticker = "loop"
  /\ nsent' = nsent + 1
  /\ IF rxAlive
     THEN /\ nticks < MaxTicks
          /\ Len(queue) < MaxQueue
          /\ queue' = send(queue, Render, nsent + 1)
          /\ nticks' = nticks + 1
          /\ UNCHANGED ticker
     ELSE /\ ticker' = "panicked"
          /\ UNCHANGED <<queue, nticks>>
  /\ UNCHANGED <<logic, rxAlive, ctl, ret, input, nkeys, lastId, sinceTick, dirAtTick,
                 eaten, term, rand>>

TickerSend ==
  /\ ticker = "loop"
  /\ nsent' = nsent + 1
  /\ IF rxAlive
     THEN /\ nticks < MaxTicks
          /\ Len(queue) < MaxQueue
          /\ queue' = send(queue, Render, nsent + 1)
          /\ nticks' = nticks + 1
          /\ UNCHANGED ticker
     ELSE /\ ticker' = "exited"
          /\ UNCHANGED <<queue, nticks>>
  /\ UNCHANGED <<logic, rxAlive, ctl, ret, input, nkeys, lastId, sinceTick, dirAtTick,
                 eaten, term, rand>>

\* One turn of `for c in stdin.keys()` with a key read successfully: the
\* key is decoded and its message, if it has one, is sent.
KeyPress_direct(k) ==
  /\ input = "loop"
  /\ nkeys < MaxKeys
  /\ nkeys' = nkeys + 1
  /\ KeyToMsg(k)[1] = "ChangeDir"
  /\ dir' = set_dir(dir, KeyToMsg(k)[2])
  /\ UNCHANGED <<body, pos_feed, queue, nsent, input, rxAlive, ctl, ret, ticker,
                 nticks, lastId, sinceTick, dirAtTick, eaten, term, rand>>

KeyPress(k) ==
  /\ input = "loop"
  /\ nkeys < MaxKeys
  /\ nkeys' = nkeys + 1
  /\ LET msg == KeyToMsg(k) IN
       IF msg = NoMsg
       THEN UNCHANGED <<queue, nsent, input>>
       ELSE /\ nsent' = nsent + 1
            /\ IF rxAlive
               THEN /\ Len(queue) < MaxQueue
                    /\ queue' = send(queue, msg, nsent + 1)
                    /\ UNCHANGED input
               ELSE /\ input' = "exited"
                    /\ UNCHANGED queue
  /\ UNCHANGED <<logic, rxAlive, ctl, ret, ticker, nticks, lastId, sinceTick, dirAtTick,
                 eaten, term, rand>>

\* c.unwrap() on a key read error: the key reader thread panics.
InputReadError ==
  /\ input = "loop"
  /\ input' = "panicked"
  /\ UNCHANGED <<logic, queue, rxAlive, ctl, ret, ticker, nticks, nkeys, nsent,
                 lastId, sinceTick, dirAtTick, eaten, term, rand>>

\* stdin.keys() ends: the key reader thread returns.
InputEof ==
  /\ input = "loop"
  /\ input' = "exited"
  /\ UNCHANGED <<logic, queue, rxAlive, ctl, ret, ticker, nticks, nkeys, nsent,
                 lastId, sinceTick, dirAtTick, eaten, term, rand>>

(***************************************************************************)
(* The consumer loop.                                                      *)
(***************************************************************************)
\* The end of r#move on body b: the self-collision check and the return
\* value, on which run breaks or renders and goes on. The write and the
\* flush of render are unwrapped: either may fail, and run panics.
FinishMove_ignore(b) ==
  /\ ret' = "true"
  /\ ctl' \in {"Running", "Panicked"}

FinishMove(b) ==
  IF CollidesWithBody(b)
  THEN /\ ret' = "false"
       /\ ctl' = "GameOver"
  ELSE /\ ret' = "true"
       /\ ctl' \in {"Running", "Panicked"}

\* ChangeDir(d) => self.logic.set_dir(d)
HandleChangeDir_direct(d) ==
  /\ dir' = d
  /\ UNCHANGED <<body, pos_feed, ctl, ret>>

HandleChangeDir(d) ==
  /\ dir' = set_dir(dir, d)
  /\ UNCHANGED <<body, pos_feed, ctl, ret>>

\* Render => if !self.logic.r#move() { break }  self.render(..)
\* up to the food relocation loop, which Sample continues.
HandleRender_keep_tail ==
  LET adj == adjascent(Head(body), dir) IN
    IF ~is_inner_field(adj)
    THEN /\ ret' = "false"
         /\ ctl' = "GameOver"
         /\ UNCHANGED <<body, pos_feed, dir>>
    ELSE /\ body' = push_front(body, adj)
         /\ FinishMove(body')
         /\ UNCHANGED <<pos_feed, dir>>

HandleRender_keep_food ==
  LET adj == adjascent(Head(body), dir) IN
    IF ~is_inner_field(adj)
    THEN /\ ret' = "false"
         /\ ctl' = "GameOver"
         /\ UNCHANGED <<body, pos_feed, dir>>
    ELSE IF adj = pos_feed
    THEN /\ body' = push_front(body, adj)
         /\ FinishMove(body')
         /\ UNCHANGED <<pos_feed, dir>>
    ELSE /\ body' = pop_back(push_front(body, adj))
         /\ FinishMove(body')
         /\ UNCHANGED <<pos_feed, dir>>

HandleRender_check_before_pop ==
  LET adj == adjascent(Head(body), dir) IN
    IF ~is_inner_field(adj)
    THEN /\ ret' = "false"
         /\ ctl' = "GameOver"
         /\ UNCHANGED <<body, pos_feed, dir>>
    ELSE IF adj = pos_feed
    THEN /\ body' = push_front(body, adj)
         /\ ctl' = "Sampling"
         /\ UNCHANGED <<pos_feed, dir, ret>>
    ELSE /\ body' = pop_back(push_front(body, adj))
         /\ FinishMove(push_front(body, adj))
         /\ UNCHANGED <<pos_feed, dir>>

HandleRender_push_first ==
  LET adj == adjascent(Head(body), dir) IN
    IF ~is_inner_field(adj)
    THEN /\ body' = push_front(body, adj)
         /\ ret' = "false"
         /\ ctl' = "GameOver"
         /\ UNCHANGED <<pos_feed, dir>>
    ELSE IF adj = pos_feed
    THEN /\ body' = push_front(body, adj)
         /\ ctl' = "Sampling"
         /\ UNCHANGED <<pos_feed, dir, ret>>
    ELSE /\ body' = pop_back(push_front(body, adj))
         /\ FinishMove(body')
         /\ UNCHANGED <<pos_feed, dir>>

HandleRender_pop_always ==
  LET adj == adjascent(Head(body), dir) IN
    IF ~is_inner_field(adj)
    THEN /\ ret' = "false"
         /\ ctl' = "GameOver"
         /\ UNCHANGED <<body, pos_feed, dir>>
    ELSE IF adj = pos_feed
    THEN /\ body' = pop_back(push_front(body, adj))
         /\ ctl' = "Sampling"
         /\ UNCHANGED <<pos_feed, dir, ret>>
    ELSE /\ body' = pop_back(push_front(body, adj))
         /\ FinishMove(body')
         /\ UNCHANGED <<pos_feed, dir>>

HandleRender ==
  LET adj == adjascent(Head(body), dir) IN
    IF ~is_inner_field(adj)
    THEN /\ ret' = "false"
         /\ ctl' = "GameOver"
         /\ UNCHANGED <<body, pos_feed, dir>>
    ELSE IF adj = pos_feed
    THEN /\ body' = push_front(body, adj)
         /\ ctl' = "Sampling"
         /\ UNCHANGED <<pos_feed, dir, ret>>
    ELSE /\ body' = pop_back(push_front(body, adj))
         /\ FinishMove(body')
         /\ UNCHANGED <<pos_feed, dir>>

\* Quit => break
HandleQuit_continue ==
  /\ UNCHANGED <<body, pos_feed, dir, ret, ctl>>

HandleQuit ==
  /\ ctl' = "GameOver"
  /\ UNCHANGED <<body, pos_feed, dir, ret>>

\* while let Ok(e) = self.event_rx.recv() { match e { .. } }
Consume ==
  /\ ctl = "Running"
  /\ rxAlive
  /\ queue # <<>>
  /\ LET r == recv(queue)
         e == r.msg.ev
     IN /\ queue' = r.rest
        /\ lastId' = r.msg.id
        /\ eaten' = IF e = Render /\ adjascent(Head(body), dir) = pos_feed
                    THEN eaten + 1 ELSE eaten
        /\ CASE e[1] = "ChangeDir" ->
                  /\ HandleChangeDir(e[2])
                  /\ sinceTick' = Append(sinceTick, e[2])
                  /\ UNCHANGED dirAtTick
             [] e[1] = "Render" ->
                  /\ HandleRender
                  /\ sinceTick' = <<>>
                  /\ dirAtTick' = dir
             [] e[1] = "Quit" ->
                  /\ HandleQuit
                  /\ UNCHANGED <<sinceTick, dirAtTick>>
  /\ UNCHANGED <<rxAlive, ticker, input, nticks, nkeys, nsent, term, rand>>

\* One turn of the 'outer loop of r#move with the draws r0 and r1: a
\* candidate on the body is drawn again, any other becomes the food and
\* r#move goes on to its self-collision check. Coord::rand asserts
\* min <= max before it draws.
Sample(r0, r1) ==
  /\ ctl = "Sampling"
  /\ SizeLe(FeedMin, FeedMax)
  /\ LET cand == CoordRand(FeedMin, FeedMax, r0, r1) IN
       IF InBody(body, cand)
       THEN UNCHANGED <<pos_feed, ctl, ret>>
       ELSE /\ pos_feed' = cand
            /\ FinishMove(body)
  /\ UNCHANGED <<body, dir, queue, rxAlive, ticker, input, nticks, nkeys, nsent,
                 lastId, sinceTick, dirAtTick, eaten, term, rand>>

\* After the loop: write!(stdout, cursor::Show).unwrap(), and run returns,
\* which drops stdout (the raw mode ends) and self, and with self event_rx
\* and the events still in the channel. A failed write panics instead.
Finalize ==
  /\ ctl = "GameOver"
  /\ \/ /\ ctl' = "Returned"
        /\ cursorHidden' = FALSE
        /\ rawMode' = FALSE
        /\ rxAlive' = FALSE
        /\ queue' = <<>>
     \/ /\ ctl' = "Panicked"
        /\ UNCHANGED <<cursorHidden, rawMode, rxAlive, queue>>
  /\ UNCHANGED <<logic, ret, ticker, input, nticks, nkeys, nsent, lastId,
                 sinceTick, dirAtTick, eaten, rand>>

\* A panic in run unwinds it: stdout is dropped (the raw mode ends) and so
\* is self; no cursor::Show is written on this path.
Unwind ==
  /\ ctl = "Panicked"
  /\ ctl' = "Aborted"
  /\ rawMode' = FALSE
  /\ rxAlive' = FALSE
  /\ queue' = <<>>
  /\ UNCHANGED <<logic, ret, ticker, input, nticks, nkeys, nsent, lastId,
                 sinceTick, dirAtTick, eaten, cursorHidden, rand>>

\* main ends, by its return or by the panic: the process exits and takes
\* the threads still running with it.
ProcessExit ==
  /\ ctl \in {"Returned", "Aborted"}
  /\ ctl' = "Terminated"
  /\ ticker' = IF ticker = "loop" THEN "killed" ELSE ticker
  /\ input' = IF input = "loop" THEN "killed" ELSE input
  /\ UNCHANGED <<logic, queue, rxAlive, ret, nticks, nkeys, nsent, lastId,
                 sinceTick, dirAtTick, eaten, term, rand>>

Next ==
  \/ TickerSend
  \/ \E k \in Keys : KeyPress(k)
  \/ InputReadError
  \/ InputEof
  \/ Consume
  \/ \E r0, r1 \in RngValues : Sample(r0, r1)
  \/ Finalize
  \/ Unwind
  \/ ProcessExit

Spec == Init /\ [][Next]_vars

(***************************************************************************)
(* Coord::rand taken by itself, on arguments the game never passes.        *)
(***************************************************************************)
SizeValues == 0..MaxSize

\* Coord::rand(min, max) has been called; the game stands still meanwhile.
RandInit ==
  /\ InitGame(NewLogic)
  /\ \E a, b \in SizeValues \X SizeValues :
       rand = [min |-> a, max |-> b, pc |-> "called", out |-> <<>>]

\* assert!(min <= max) with the derived PartialOrd of Size.
RandAssert ==
  /\ rand.pc = "called"
  /\ rand' = [rand EXCEPT !.pc = IF SizeLe(rand.min, rand.max)
                                 THEN "drawing" ELSE "assert_failed"]
  /\ UNCHANGED game

\* 1 + hi - lo leaves u16: a panic where overflow is checked (debug
\* builds), a wrapped value where it is not (release builds).
RangeOverflows(lo, hi) == 1 + hi >= U16 \/ 1 + hi - lo < 0
RangeLen(lo, hi) == (1 + hi - lo) % U16

\* The tuple of the two coordinates with the draws r0 and r1, first axis
\* first. A remainder by zero panics in every build; what an overflow does
\* depends on the build, so both outcomes are possible.
RandDraw(r0, r1) ==
  /\ rand.pc = "drawing"
  /\ LET lo0 == rand.min[1]
         hi0 == rand.max[1]
         lo1 == rand.min[2]
         hi1 == rand.max[2]
         value == [rand EXCEPT !.pc = "returned",
                               !.out = CoordRand(rand.min, rand.max, r0, r1)]
         overflow == [rand EXCEPT !.pc = "overflow_panic"]
         rem_zero == [rand EXCEPT !.pc = "rem_zero_panic"]
         checked ==
           IF RangeOverflows(lo0, hi0) THEN overflow
           ELSE IF RangeLen(lo0, hi0) = 0 THEN rem_zero
           ELSE IF lo0 + (r0 % RangeLen(lo0, hi0)) >= U16 THEN overflow
           ELSE IF RangeOverflows(lo1, hi1) THEN overflow
           ELSE IF RangeLen(lo1, hi1) = 0 THEN rem_zero
           ELSE IF lo1 + (r1 % RangeLen(lo1, hi1)) >= U16 THEN overflow
           ELSE value
         wrapping ==
           IF RangeLen(lo0, hi0) = 0 \/ RangeLen(lo1, hi1) = 0
           THEN rem_zero
           ELSE value
     IN rand' \in {checked, wrapping}
  /\ UNCHANGED game

RandNext ==
  \/ RandAssert
  \/ \E r0, r1 \in RngValues : RandDraw(r0, r1)

RandSpec == RandInit /\ [][RandNext]_vars

(***************************************************************************)
(* Steps of the consumer, told by what they read and write.                *)
(***************************************************************************)
\* The consumer takes an event out of the channel in this step.
ConsumeStep == ctl = "Running" /\ rxAlive /\ queue # <<>> /\ lastId' # lastId

\* The step in which a Render event is taken and r#move is called.
TickBegins == ConsumeStep /\ Head(queue).ev = Render

\* The step in which a ChangeDir event is taken and handled.
ChangeDirStep == ConsumeStep /\ Head(queue).ev[1] = "ChangeDir"

\* The step in which a Quit event is taken and handled.
QuitStep == ConsumeStep /\ Head(queue).ev = Quit

\* The step in which the food relocation loop of r#move ends.
FeedPlaced == ctl = "Sampling" /\ ctl' # "Sampling"

\* A cell outside the interior, as the specification words it.
OutsideInterior(c) == ~(c[1] \in 1..(FieldW - 2) /\ c[2] \in 1..(FieldH - 2))

OppositePairs == {<<Up, Down>>, <<Down, Up>>, <<Left, Right>>, <<Right, Left>>}

(***************************************************************************)
(* C1: r#move returns false if and only if the next head cell adj is       *)
(* outside the interior or, after the push of adj and the tail pop (if     *)
(* any), adj equals a body cell other than the new head; otherwise it      *)
(* returns true.                                                           *)
(***************************************************************************)
C1_AdvanceResult ==
  [][ /\ (TickBegins /\ ctl' # "Sampling") =>
           LET adj == adjascent(Head(body), dir)
               nb == <<adj>> \o SubSeq(body, 1, Len(body) - 1)
           IN /\ ret' \in {"true", "false"}
              /\ (ret' = "false") <=>
                   (OutsideInterior(adj) \/ \E i \in 2..Len(nb) : nb[i] = adj)
      /\ FeedPlaced =>
           /\ ret' \in {"true", "false"}
           /\ (ret' = "false") <=> (\E i \in 2..Len(body) : body[i] = body[1])
    ]_vars

\* A tick has returned false on a self-collision: the head lies on another
\* body cell.
C1_Witness ==
  /\ ret = "false"
  /\ ctl = "GameOver"
  /\ \E i \in 2..Len(body) : body[i] = body[1]

(***************************************************************************)
(* C2: across a tick the body length never decreases; it grows by exactly  *)
(* one exactly when the computed new head equals the food held before the  *)
(* tick, and is unchanged in every other step.                             *)
(***************************************************************************)
C2_LengthGrowth ==
  [][ /\ Len(body') \in {Len(body), Len(body) + 1}
      /\ (Len(body') = Len(body) + 1) <=>
           (TickBegins /\ adjascent(Head(body), dir) = pos_feed)
    ]_vars

\* The snake has eaten once and lives on.
C2_Witness ==
  /\ Len(body) = 4
  /\ ret = "true"
  /\ ctl = "Running"
  /\ lastId >= 1
  /\ body[4] = <<7, 10>>

(***************************************************************************)
(* C3: after a tick on which the snake grew, the newly placed food is an   *)
(* interior cell that differs from every cell of the body after the tick,  *)
(* the new head included, whatever the draws were.                         *)
(***************************************************************************)
C3_FreshFoodFree ==
  [][ FeedPlaced =>
        /\ ~OutsideInterior(pos_feed')
        /\ \A i \in 1..Len(body') : body'[i] # pos_feed'
    ]_vars

\* The food has been relocated after a growth.
C3_Witness ==
  /\ Len(body) = 4
  /\ ctl = "Running"
  /\ pos_feed # NewLogic.pos_feed
  /\ Head(body) = NewLogic.pos_feed
  /\ body[Len(body)] = <<7, 10>>

(***************************************************************************)
(* C4: set_dir(d) leaves the direction c when d is the opposite of c and   *)
(* sets it to d for the three other values of d; it never changes the      *)
(* body or the food.                                                       *)
(***************************************************************************)
C4_SetDirection ==
  [][ ChangeDirStep =>
        LET d == Head(queue).ev[2] IN
          /\ dir' = IF <<dir, d>> \in OppositePairs THEN dir ELSE d
          /\ body' = body
          /\ pos_feed' = pos_feed
    ]_vars

\* Left was requested while the direction was Right, and it is still Right.
C4_Witness ==
  /\ lastId >= 1
  /\ dirAtTick = Right
  /\ sinceTick = <<Left>>
  /\ dir = Right

(***************************************************************************)
(* C5: no tick moves the head into the cell that was the neck (the second  *)
(* body cell) before that tick, whatever DirectionChange and Tick events   *)
(* the controller consumed.                                                *)
(***************************************************************************)
C5_NoNeckReversal ==
  [][ TickBegins => adjascent(Head(body), dir) # body[2] ]_vars

(***************************************************************************)
(* C6: when two DirectionChange events are consumed between two            *)
(* consecutive Tick events, the direction the next tick uses is the        *)
(* direction of the second event.                                          *)
(***************************************************************************)
C6_LastOneWins ==
  [][ (TickBegins /\ ret # "none" /\ Len(sinceTick) = 2) => dir = sinceTick[2] ]_vars

(***************************************************************************)
(* C6, amended: both events are applied in order, each under the reversal  *)
(* rule; the next tick uses the direction of the second event unless that  *)
(* is the opposite of the direction in force after the first event, and    *)
(* then it uses the direction in force after the first event.              *)
(***************************************************************************)
C6_BothAppliedInOrder ==
  [][ (TickBegins /\ ret # "none" /\ Len(sinceTick) = 2) =>
        LET c == dirAtTick
            d1 == sinceTick[1]
            d2 == sinceTick[2]
            mid == IF <<c, d1>> \in OppositePairs THEN c ELSE d1
        IN dir = IF <<mid, d2>> \in OppositePairs THEN mid ELSE d2
    ]_vars

\* After a tick two different DirectionChange events were consumed, the
\* second took effect, and the next Render waits in the channel.
C6_Witness ==
  /\ lastId >= 3
  /\ ctl = "Running"
  /\ ret = "true"
  /\ Len(sinceTick) = 2
  /\ sinceTick[1] # sinceTick[2]
  /\ dir = sinceTick[2]
  /\ queue # <<>>
  /\ Head(queue).ev = Render

(***************************************************************************)
(* C7: the controller consumes the events in the order of their enqueuing: *)
(* the events consumed are those numbered 1..lastId, and the channel holds *)
(* the others, lastId+1..nsent, in that order; none is skipped, reordered, *)
(* duplicated or merged.                                                   *)
(***************************************************************************)
C7_FifoOrder ==
  rxAlive =>
    /\ lastId + Len(queue) = nsent
    /\ \A i \in 1..Len(queue) : queue[i].id = lastId + i

\* Events of both producers wait in the channel after others were consumed.
C7_Witness ==
  /\ lastId >= 2
  /\ Len(queue) = 2
  /\ queue[1].ev[1] = "ChangeDir"
  /\ queue[2].ev = Render
  /\ ctl = "Running"

(***************************************************************************)
(* C8: the body and the food change only while a Tick event is processed,  *)
(* the direction only while a DirectionChange event is processed, and no   *)
(* step of the ticker or of the key reader changes any of the three.       *)
(***************************************************************************)
ProducerStep ==
  nsent' # nsent \/ nkeys' # nkeys \/ nticks' # nticks \/ ticker' # ticker \/ input' # input

C8_OnlyConsumerMutates ==
  [][ /\ (body' # body \/ pos_feed' # pos_feed) =>
           (~ProducerStep /\ (TickBegins \/ ctl = "Sampling"))
      /\ (dir' # dir) => (~ProducerStep /\ ChangeDirStep)
      /\ ProducerStep => UNCHANGED <<body, pos_feed, dir>>
    ]_vars

\* A tick has moved the snake and a DirectionChange has turned it, while
\* events of the producers wait in the channel.
C8_Witness ==
  /\ lastId >= 2
  /\ ret = "true"
  /\ \A st \in StartLogics : body # st.body
  /\ Len(sinceTick) = 1
  /\ dir # dirAtTick
  /\ Len(queue) = 2

(***************************************************************************)
(* C9: a Quit event ends Running at once, without a call of r#move and     *)
(* without a change of the game state; and once the controller has left    *)
(* Running it takes no further event and the game state never changes      *)
(* again, whatever the producers enqueue.                                  *)
(***************************************************************************)
C9_QuitAndStop ==
  [][ /\ QuitStep =>
           /\ ctl' = "GameOver"
           /\ UNCHANGED <<body, pos_feed, dir, ret>>
      /\ (ctl \notin {"Running", "Sampling"}) =>
           /\ ctl' \notin {"Running", "Sampling"}
           /\ UNCHANGED <<body, pos_feed, dir, ret, lastId>>
    ]_vars

\* The loop was left by a Quit (no r#move returned false) and an event
\* enqueued since waits in the channel, never to be consumed.
C9_Witness ==
  /\ ctl = "GameOver"
  /\ ret # "false"
  /\ queue # <<>>
  /\ nsent > lastId + 1

(***************************************************************************)
(* C10: once the receiver is dropped, every send of the ticker or of the   *)
(* key reader fails and the thread that made it leaves its loop without a  *)
(* panic; with a fair ticker, the ticker thread eventually ends.           *)
(***************************************************************************)
FairSpec == Spec /\ WF_vars(TickerSend)

C10_ProducersExit ==
  /\ [][ (~rxAlive /\ nsent' # nsent) =>
           /\ queue' = queue
           /\ \/ ticker = "loop" /\ ticker' = "exited" /\ input' = input
              \/ input = "loop" /\ input' = "exited" /\ ticker' = ticker
       ]_vars
  /\ (~rxAlive) ~> (ticker \in {"exited", "killed"})

\* The ticker found its send failing and left its loop.
C10_Witness == ~rxAlive /\ ticker = "exited" /\ ctl = "Returned"

(***************************************************************************)
(* C11: on every exit path of the controller (death, Quit, a failed        *)
(* terminal write or flush) the terminal is restored before the process    *)
(* exits: the raw mode is released and the cursor is shown again.          *)
(***************************************************************************)
C11_TerminalRestored ==
  ctl = "Terminated" => (~rawMode /\ ~cursorHidden)

(***************************************************************************)
(* C12: on the (20,20) field the initial state is body = [(4,2),(3,2),     *)
(* (2,2)], direction Right, food (10,10), score 0; the first r#move from   *)
(* it, with no direction change before, returns true and leaves body =     *)
(* [(5,2),(4,2),(3,2)] with food, direction and score (0) unchanged.       *)
(***************************************************************************)
C12_InitialAndFirstAdvance ==
  [][ (ret = "none" /\ sinceTick = <<>>) =>
        /\ field_size = <<20, 20>>
        /\ body = << <<4, 2>>, <<3, 2>>, <<2, 2>> >>
        /\ dir = "Right"
        /\ pos_feed = <<10, 10>>
        /\ score(body) = 0
        /\ TickBegins =>
             /\ ret' = "true"
             /\ body' = << <<5, 2>>, <<4, 2>>, <<3, 2>> >>
             /\ pos_feed' = <<10, 10>>
             /\ dir' = "Right"
             /\ score(body') = 0
    ]_vars

\* The first r#move of the game has been made, with no event before it.
C12_Witness ==
  /\ lastId = 1
  /\ ret = "true"
  /\ dirAtTick = "Right"
  /\ body = << <<5, 2>>, <<4, 2>>, <<3, 2>> >>

(***************************************************************************)
(* C13: in every reachable state the body has at least 3 cells, so the     *)
(* subtraction of score() never underflows, and the score equals the       *)
(* number of ticks so far on which the head landed on the food.            *)
(***************************************************************************)
C13_ScoreCountsFood ==
  /\ Len(body) >= 3
  /\ score(body) >= 0
  /\ score(body) = eaten

\* The head has just landed on the food: the tick is counted and the body
\* has grown, before the food is relocated.
C13_Witness ==
  /\ ctl = "Sampling"
  /\ lastId >= 1
  /\ eaten >= 1
  /\ score(body) = eaten

(***************************************************************************)
(* C14: in every reachable state, the state left by a fatal tick included, *)
(* every body cell lies strictly inside the wall border, 1 <= x <= w-2 and *)
(* 1 <= y <= h-2; hence the head has no coordinate 0 when adjascent is     *)
(* called and the unsigned subtraction for Up and Left never underflows.   *)
(***************************************************************************)
C14_BodyInsideWalls ==
  /\ \A i \in 1..Len(body) :
       /\ 1 <= body[i][1] /\ body[i][1] <= FieldW - 2
       /\ 1 <= body[i][2] /\ body[i][2] <= FieldH - 2
  /\ LET h == Head(body) IN
       /\ h[1] - 1 >= 0
       /\ h[2] - 1 >= 0
       /\ adjascent(h, Up) = <<h[1], h[2] - 1>>
       /\ adjascent(h, Left) = <<h[1] - 1, h[2]>>

\* The head is on the top interior row, heading Up, and a Render waits:
\* the next r#move computes y - 1 = 0.
C14_Witness ==
  /\ ctl = "Running"
  /\ lastId >= 1
  /\ Head(body)[2] = 1
  /\ dir = "Up"
  /\ queue # <<>>
  /\ Head(queue).ev = Render

(***************************************************************************)
(* C15: when r#move returns false on a wall collision, the body, the food  *)
(* and the direction are as before the call; a snake whose head is on a    *)
(* wall-adjacent interior cell is alive there, and the next r#move toward  *)
(* the wall returns false without a change of the state.                   *)
(***************************************************************************)
WallAdjacent(c) ==
  /\ ~OutsideInterior(c)
  /\ (c[1] \in {1, FieldW - 2} \/ c[2] \in {1, FieldH - 2})

C15_WallCollisionKeepsState ==
  [][ TickBegins =>
        LET adj == adjascent(Head(body), dir) IN
          /\ OutsideInterior(adj) =>
               /\ ret' = "false"
               /\ UNCHANGED <<body, pos_feed, dir>>
          /\ (WallAdjacent(adj) /\ \A i \in 1..Len(body) : body[i] # adj) =>
               /\ ret' # "false"
               /\ Head(body') = adj
    ]_vars

\* The state a fatal step from the top interior row into the wall leaves.
C15_Witness ==
  /\ ctl = "GameOver"
  /\ ret = "false"
  /\ WallAdjacent(Head(body))
  /\ OutsideInterior(adjascent(Head(body), dir))
  /\ \A i \in 2..Len(body) : body[i] # Head(body)

(***************************************************************************)
(* C16: on a tick without growth whose next head cell is the tail cell of  *)
(* before the tick, and no other body cell, r#move returns true: a move    *)
(* into the cell the tail has just left is no self-collision.              *)
(***************************************************************************)
C16_TailCellIsFree ==
  [][ TickBegins =>
        LET adj == adjascent(Head(body), dir) IN
          ( /\ ~OutsideInterior(adj)
            /\ adj # pos_feed
            /\ adj = body[Len(body)]
            /\ \A i \in 1..(Len(body) - 1) : body[i] # adj ) =>
              /\ ret' = "true"
              /\ Head(body') = adj
              /\ Len(body') = Len(body)
    ]_vars

\* The snake of four cells has turned down into the cell its tail left.
C16_Witness ==
  /\ lastId >= 1
  /\ ret = "true"
  /\ dirAtTick = "Down"
  /\ body = << <<9, 10>>, <<9, 9>>, <<10, 9>>, <<10, 10>> >>

\* Two positions of the body hold the same cell: the body has fewer cells
\* than positions.
HasDuplicate(b) == Cardinality({b[i] : i \in 1..Len(b)}) < Len(b)

(***************************************************************************)
(* C17: while the controller is running (also in the middle of a tick) the *)
(* body cells are pairwise distinct; a body with a duplicate cell is the   *)
(* one left by a tick that returned false, and nothing changes the game    *)
(* state after it.                                                         *)
(***************************************************************************)
C17_DistinctWhileRunning ==
  /\ [](HasDuplicate(body) => (ret = "false" /\ ctl \notin {"Running", "Sampling"}))
  /\ [][HasDuplicate(body) => UNCHANGED logic]_vars

\* A run that ended by a self-collision, the duplicate still in the body.
C17_Witness ==
  /\ HasDuplicate(body)
  /\ Head(body) \in {body[i] : i \in 2..Len(body)}
  /\ ctl = "Terminated"
  /\ lastId >= 2

\* The cells of the interior, the ones the relocation loop can draw.
InteriorCells == (1..(FieldW - 2)) \X (1..(FieldH - 2))

(***************************************************************************)
(* C18: whenever the snake has eaten and the relocation loop of r#move is  *)
(* drawing, at least one interior cell is not occupied by the grown body,  *)
(* so that some draw ends the loop and the tick finishes.                  *)
(***************************************************************************)
C18_FreeCellWhenEating ==
  ctl = "Sampling" => \E c \in InteriorCells : ~InBody(body, c)

\* The arguments of the Coord::rand call break min <= max on some axis.
ExceedsOnSomeAxis == rand.min[1] > rand.max[1] \/ rand.min[2] > rand.max[2]

(***************************************************************************)
(* C19: a call Coord::rand(min, max) in which min exceeds max on at least  *)
(* one axis ends in the assertion failure; it never gets past the          *)
(* assertion to the range arithmetic.                                      *)
(***************************************************************************)
C19_ComponentwiseAssert ==
  (rand.pc \notin {"idle", "called"} /\ ExceedsOnSomeAxis) => rand.pc = "assert_failed"

(***************************************************************************)
(* C20: the food is always an interior cell. Between the ticks it is on no *)
(* body cell; inside a tick on which the snake grows, until the new food   *)
(* is placed, the only body cell on it is the new head. A tick on which    *)
(* the snake grows and r#move returns does not end in a self-collision:    *)
(* it returns true.                                                        *)
(***************************************************************************)
C20_FoodOffBody ==
  /\ [](pos_feed \in InteriorCells)
  /\ [](ctl # "Sampling" => \A i \in 1..Len(body) : body[i] # pos_feed)
  /\ [](ctl = "Sampling" => \A i \in 2..Len(body) : body[i] # pos_feed)
  /\ [][FeedPlaced => (ret' = "true" /\ ctl' # "GameOver")]_vars

\* The snake ate twice in the run, moved on, and is between two ticks.
C20_Witness ==
  /\ eaten >= 2
  /\ lastId >= 2
  /\ Len(body) = 5
  /\ ctl = "Running"
  /\ ret = "true"

====
